---- MODULE Spec2Model ----
(***************************************************************************)
(* Model of src/components/useCamera.ts (the variant with updateMood):     *)
(* a Vue composable that pumps video frames, starts face detections,       *)
(* draws landmarks and maps the top expression to a bounded mood value.    *)
(*                                                                         *)
(* JavaScript scheduling: every handler runs to completion on one thread.  *)
(* A frame callback is one task; the part of an async function after an    *)
(* await is a continuation.  Awaiting a plain value resumes in the         *)
(* microtask checkpoint that follows the current task; awaiting the        *)
(* inference engine resumes whenever the engine finishes.                  *)
(***************************************************************************)
EXTENDS Integers, Sequences, FiniteSets, TLC

\* ---- bounds of the model ----
MaxInFlight == 2   \* most detection calls outstanding at once
MaxJobs == 2       \* most suspended addLandmarks invocations at once

\* ---- program constants ----
MIN == 0
MAX == 180
STEP == 10
HALFSTEP == 5
Unset == -1        \* a style property that was never assigned

\* expression labels the inference engine may rank first
Labels == {"happy", "neutral", "sad", "angry", "surprised"}

\* frame metadata (width, height) the platform may report
FrameSizes == {<<640, 480>>, <<1280, 720>>}

\* the scenario of the end-to-end example
Script == <<"happy", "sad", "neutral", "surprised">>

VARIABLES
  modelLoaded,               \* ref(false)
  camera,                    \* getUserMedia promise: "requesting", "granted", "rejected"
  videoElement,              \* TRUE iff the template ref is bound
  canvasElement,             \* TRUE iff the template ref is bound
  filterElement,             \* TRUE iff the template ref is bound
  paused, ended,             \* videoElement.paused / .ended
  size,                      \* ref<[number, number]>([0, 0])
  canvasSize,                \* canvasElement width and height
  canvasLandmarks,           \* landmark points are painted on canvasElement
  canvasHue,                 \* degrees of hue-rotate in canvasElement.style.filter
  filterOpacity,             \* numerator of the alpha mood/180 in filterElement.style.background
  frameRequested,            \* a requestVideoFrameCallback registration is pending
  detections,                \* ref() holding the latest stored detection result
  mood,                      \* ref(180)
  previousLandmarkDrawn,     \* ref(true)
  previousDetectionFinished, \* ref(true)
  inflight,                  \* detection calls started and not completed, in start order
  landmarkJobs,              \* addLandmarks invocations suspended at their await
  consoleLog,                \* labels written by console.log
  lastExpr,                  \* history: switch key of the latest updateMood call
  scenario,                  \* history: how much of Script the updateMood calls matched so far
  storedStale,               \* history: the latest store came from a detection started
                             \* before the one whose result it overwrote
  frameLog                   \* history: the steps of the latest frame callback, in order

elems == <<videoElement, canvasElement, filterElement>>
video == <<paused, ended>>
styles == <<canvasHue, filterOpacity>>
gates == <<previousLandmarkDrawn, previousDetectionFinished>>
hist == <<lastExpr, scenario, consoleLog>>

vars == <<modelLoaded, camera, videoElement, canvasElement, filterElement,
          paused, ended, size, canvasSize, canvasLandmarks, canvasHue,
          filterOpacity,
          frameRequested, detections, mood, previousLandmarkDrawn,
          previousDetectionFinished, inflight, landmarkJobs, consoleLog,
          lastExpr, scenario, storedStale, frameLog>>

\* ---- detection results ----
\* detectSingleFace(...).withFaceLandmarks(true).withFaceExpressions() yields
\* undefined when no face is found, else landmarks and ranked expressions.
\* expressions is kept as the array asSortedArray() returns (best first).
Undefined == [defined |-> FALSE, landmarks |-> FALSE, expressions |-> <<>>]

Detection(label) == [defined |-> TRUE, landmarks |-> TRUE, expressions |-> <<label>>]

DetectionResults == {Undefined} \cup {Detection(l) : l \in Labels}

\* detections.value.expressions.asSortedArray()[0]?.expression
TopExpression(d) ==
  IF ~d.defined THEN "undefined"
  ELSE IF Len(d.expressions) = 0 THEN "undefined"
  ELSE Head(d.expressions)

\* ---- updateMood ----
\* variants of updateMood with one branch changed
UpdateMood_NeutralNoClamp(m, d) ==
  IF TopExpression(d) = "undefined" THEN m
  ELSE CASE TopExpression(d) = "happy" -> (IF m < MAX THEN m + STEP ELSE MAX)
         [] TopExpression(d) = "neutral" -> m - HALFSTEP
         [] TopExpression(d) \in {"sad", "angry"} -> MIN
         [] OTHER -> m

UpdateMood_AngryUnhandled(m, d) ==
  IF TopExpression(d) = "undefined" THEN m
  ELSE CASE TopExpression(d) = "happy" -> (IF m < MAX THEN m + STEP ELSE MAX)
         [] TopExpression(d) = "neutral" -> (IF m > MIN THEN m - HALFSTEP ELSE MIN)
         [] TopExpression(d) = "sad" -> MIN
         [] OTHER -> m

UpdateMood_SurprisedAsHappy(m, d) ==
  IF TopExpression(d) = "undefined" THEN m
  ELSE CASE TopExpression(d) \in {"happy", "surprised"} -> (IF m < MAX THEN m + STEP ELSE MAX)
         [] TopExpression(d) = "neutral" -> (IF m > MIN THEN m - HALFSTEP ELSE MIN)
         [] TopExpression(d) \in {"sad", "angry"} -> MIN
         [] OTHER -> m

UpdateMood_NoFaceResets(m, d) ==
  IF TopExpression(d) = "undefined" THEN MIN
  ELSE CASE TopExpression(d) = "happy" -> (IF m < MAX THEN m + STEP ELSE MAX)
         [] TopExpression(d) = "neutral" -> (IF m > MIN THEN m - HALFSTEP ELSE MIN)
         [] TopExpression(d) \in {"sad", "angry"} -> MIN
         [] OTHER -> m

UpdateMood_SadDecrements(m, d) ==
  IF TopExpression(d) = "undefined" THEN m
  ELSE CASE TopExpression(d) = "happy" -> (IF m < MAX THEN m + STEP ELSE MAX)
         [] TopExpression(d) = "neutral" -> (IF m > MIN THEN m - HALFSTEP ELSE MIN)
         [] TopExpression(d) = "sad" -> (IF m > MIN THEN m - STEP ELSE MIN)
         [] TopExpression(d) = "angry" -> MIN
         [] OTHER -> m

UpdateMood(m, d) ==
  IF ~d.defined THEN m
  ELSE IF Len(d.expressions) = 0 THEN m
  ELSE CASE Head(d.expressions) = "happy" -> (IF m < MAX THEN m + STEP ELSE MAX)
         [] Head(d.expressions) = "neutral" -> (IF m > MIN THEN m - HALFSTEP ELSE MIN)
         [] Head(d.expressions) = "sad" -> MIN
         [] Head(d.expressions) = "angry" -> MIN
         [] OTHER -> m

\* the default branch of the switch: console.log(expression.expression)
UpdateMoodLogs(d) ==
  IF TopExpression(d) \in {"undefined", "happy", "neutral", "sad", "angry"}
  THEN {} ELSE {TopExpression(d)}

\* filterElement.value.style.background after updateMood
\* variant: the alpha is taken from the remaining range
UpdateMoodBackground_Inverted(old, m, d) ==
  IF TopExpression(d) = "undefined" THEN old
  ELSE IF ~filterElement THEN old
  ELSE MAX - m

UpdateMoodBackground(old, m, d) ==
  IF TopExpression(d) = "undefined" THEN old
  ELSE IF ~filterElement THEN old
  ELSE m

\* ---- scheduling of await on a plain value ----
\* `await detections.value` awaits a value that is not a promise, so the
\* continuation runs in the microtask checkpoint right after the current
\* task: no other task starts while a continuation is queued.
\* variant: the awaited value is still pending when later tasks run
AwaitResumesBeforeNextTask_Late == TRUE

AwaitResumesBeforeNextTask == landmarkJobs = <<>>

\* ---- guards ----
\* getContext: undefined when the canvas is missing
ctx == canvasElement

FrameCallbackGuard == ctx /\ videoElement /\ canvasElement

\* variant: the paused/ended test is missing
DetectFacesStarts_IgnoresPause ==
  /\ modelLoaded
  /\ videoElement
  /\ previousDetectionFinished

DetectFacesStarts ==
  /\ modelLoaded
  /\ videoElement
  /\ ~(paused \/ ended)
  /\ previousDetectionFinished

AddLandmarksStarts == canvasElement /\ previousLandmarkDrawn

\* resizeCanvas(size)
\* variant: width and height exchanged
ResizeCanvas_Swapped(old, sz) == IF ~canvasElement THEN old ELSE <<sz[2], sz[1]>>

ResizeCanvas(old, sz) == IF ~canvasElement THEN old ELSE sz

\* assigning width or height resets the bitmap of a canvas
ResizeCanvasClears(old) == IF ~canvasElement THEN old ELSE FALSE

\* ---- initial state ----
Init ==
  /\ modelLoaded = FALSE
  /\ camera = "requesting"
  /\ videoElement \in BOOLEAN
  /\ canvasElement \in BOOLEAN
  /\ filterElement \in BOOLEAN
  /\ paused = TRUE
  /\ ended = FALSE
  /\ size = <<0, 0>>
  /\ canvasSize = <<300, 150>>
  /\ canvasLandmarks = FALSE
  /\ canvasHue = Unset
  /\ filterOpacity = Unset
  /\ frameRequested = FALSE
  /\ detections = Undefined
  /\ mood = 180
  /\ previousLandmarkDrawn = TRUE
  /\ previousDetectionFinished = TRUE
  /\ inflight = <<>>
  /\ landmarkJobs = <<>>
  /\ consoleLog = {}
  /\ lastExpr = "nocall"
  /\ scenario = 0
  /\ storedStale = FALSE
  /\ frameLog = <<>>

\* ---- loadModel ----
LoadModel ==
  /\ AwaitResumesBeforeNextTask
  /\ ~modelLoaded
  /\ modelLoaded' = TRUE
  /\ UNCHANGED <<camera, elems, video, size, canvasSize, canvasLandmarks, styles, frameRequested,
                 detections, mood, gates, inflight, landmarkJobs, hist, storedStale, frameLog>>

\* ---- loadCamera / handleStream ----
HandleStream ==
  /\ AwaitResumesBeforeNextTask
  /\ camera = "requesting"
  /\ videoElement /\ canvasElement
  /\ camera' = "granted"
  /\ frameRequested' = TRUE
  /\ paused' = FALSE
  /\ UNCHANGED <<modelLoaded, elems, ended, size, canvasSize, canvasLandmarks, styles,
                 detections, mood, gates, inflight, landmarkJobs, hist, storedStale, frameLog>>

HandleStreamSkip ==
  /\ AwaitResumesBeforeNextTask
  /\ camera = "requesting"
  /\ ~(videoElement /\ canvasElement)
  /\ camera' = "granted"
  /\ UNCHANGED <<modelLoaded, elems, video, size, canvasSize, canvasLandmarks, styles, frameRequested,
                 detections, mood, gates, inflight, landmarkJobs, hist, storedStale, frameLog>>

\* variant: the rejection is routed to the same handler as the stream
GetUserMediaReject_StartsLoop ==
  /\ AwaitResumesBeforeNextTask
  /\ camera = "requesting"
  /\ camera' = "rejected"
  /\ frameRequested' = (videoElement /\ canvasElement)
  /\ UNCHANGED <<modelLoaded, elems, video, size, canvasSize, canvasLandmarks, styles,
                 detections, mood, gates, inflight, landmarkJobs, hist, storedStale, frameLog>>

GetUserMediaReject ==
  /\ AwaitResumesBeforeNextTask
  /\ camera = "requesting"
  /\ camera' = "rejected"
  /\ UNCHANGED <<modelLoaded, elems, video, size, canvasSize, canvasLandmarks, styles, frameRequested,
                 detections, mood, gates, inflight, landmarkJobs, hist, storedStale, frameLog>>

\* ---- frameCallback ----
\* the statements of the synchronous body of frameCallback, in source order
FrameCallbackOrder ==
  <<"resizeCanvas", "detectFaces", "addLandmarks", "updateMood", "style",
    "requestVideoFrameCallback">>

\* a guard fails: return without registering the next callback
FrameCallbackSkip ==
  /\ AwaitResumesBeforeNextTask
  /\ frameRequested
  /\ ~FrameCallbackGuard
  /\ frameRequested' = FALSE
  /\ UNCHANGED <<modelLoaded, camera, elems, video, size, canvasSize, canvasLandmarks, styles,
                 detections, mood, gates, inflight, landmarkJobs, hist, storedStale, frameLog>>

\* the synchronous body: resizeCanvas, detectFaces and addLandmarks up to
\* their await, updateMood, the style assignment, the next registration
FrameCallbackRun(metadata) ==
  /\ AwaitResumesBeforeNextTask
  /\ frameRequested
  /\ FrameCallbackGuard
  /\ DetectFacesStarts => Len(inflight) < MaxInFlight
  /\ AddLandmarksStarts => Len(landmarkJobs) < MaxJobs
  /\ size' = metadata
  /\ canvasSize' = ResizeCanvas(canvasSize, metadata)
  /\ canvasLandmarks' = ResizeCanvasClears(canvasLandmarks)
  /\ inflight' = IF DetectFacesStarts
                 THEN Append(inflight, [stale |-> FALSE])
                 ELSE inflight
  /\ landmarkJobs' = IF AddLandmarksStarts
                     THEN Append(landmarkJobs, detections)
                     ELSE landmarkJobs
  /\ mood' = UpdateMood(mood, detections)
  /\ filterOpacity' = UpdateMoodBackground(filterOpacity, mood', detections)
  /\ consoleLog' = consoleLog \cup UpdateMoodLogs(detections)
  /\ lastExpr' = TopExpression(detections)
  /\ scenario' = IF TopExpression(detections) = "undefined" THEN scenario
                 ELSE IF scenario >= 0 /\ scenario < Len(Script)
                         /\ TopExpression(detections) = Script[scenario + 1]
                 THEN scenario + 1
                 ELSE -1
  /\ canvasHue' = mood'
  /\ frameRequested' = TRUE
  /\ frameLog' = FrameCallbackOrder
  /\ UNCHANGED <<modelLoaded, camera, elems, video, detections, gates, storedStale>>

FrameCallbackStep == \E metadata \in FrameSizes : FrameCallbackRun(metadata)

\* ---- detectFaces after its await ----
\* the i-th outstanding detection call completes with some result, which is
\* stored into detections.value
\* variant: the mood is updated as soon as a result arrives
DetectFacesResume_UpdatesMood(i, result) ==
  /\ AwaitResumesBeforeNextTask
  /\ i \in 1..Len(inflight)
  /\ detections' = result
  /\ mood' = UpdateMood(mood, result)
  /\ storedStale' = inflight[i].stale
  /\ inflight' = [j \in 1..(Len(inflight) - 1) |->
                    IF j < i THEN [stale |-> TRUE] ELSE [stale |-> FALSE]]
  /\ UNCHANGED <<modelLoaded, camera, elems, video, size, canvasSize, canvasLandmarks, styles,
                 frameRequested, gates, landmarkJobs, hist, frameLog>>

\* variant: the completion writes the gate flag with the wrong value
DetectFacesResume_ClosesGate(i, result) ==
  /\ AwaitResumesBeforeNextTask
  /\ i \in 1..Len(inflight)
  /\ detections' = result
  /\ previousDetectionFinished' = FALSE
  /\ storedStale' = inflight[i].stale
  /\ inflight' = [j \in 1..(Len(inflight) - 1) |->
                    IF j < i THEN [stale |-> TRUE] ELSE [stale |-> FALSE]]
  /\ UNCHANGED <<modelLoaded, camera, elems, video, size, canvasSize, canvasLandmarks, styles,
                 frameRequested, mood, previousLandmarkDrawn, landmarkJobs, hist, frameLog>>

DetectFacesResume(i, result) ==
  /\ AwaitResumesBeforeNextTask
  /\ i \in 1..Len(inflight)
  /\ detections' = result
  /\ storedStale' = inflight[i].stale
  /\ inflight' = [j \in 1..(Len(inflight) - 1) |->
                    IF j < i THEN [stale |-> TRUE] ELSE [stale |-> FALSE]]
  /\ UNCHANGED <<modelLoaded, camera, elems, video, size, canvasSize, canvasLandmarks, styles,
                 frameRequested, mood, gates, landmarkJobs, hist, frameLog>>

DetectFacesStep ==
  \E i \in 1..MaxInFlight, result \in DetectionResults : DetectFacesResume(i, result)

\* ---- addLandmarks after its await ----
\* variant: the flag records whether landmarks were drawn
AddLandmarksResume_FlagIfDrawn ==
  /\ landmarkJobs /= <<>>
  /\ landmarkJobs' = Tail(landmarkJobs)
  /\ canvasLandmarks' = IF Head(landmarkJobs).landmarks THEN TRUE ELSE canvasLandmarks
  /\ frameLog' = IF Head(landmarkJobs).landmarks
                 THEN Append(frameLog, "drawFaceLandmarks")
                 ELSE frameLog
  /\ previousLandmarkDrawn' = Head(landmarkJobs).landmarks
  /\ UNCHANGED <<modelLoaded, camera, elems, video, size, canvasSize, styles,
                 frameRequested, detections, mood, previousDetectionFinished,
                 inflight, hist, storedStale>>

AddLandmarksResume ==
  /\ landmarkJobs /= <<>>
  /\ landmarkJobs' = Tail(landmarkJobs)
  /\ canvasLandmarks' = IF Head(landmarkJobs).landmarks THEN TRUE ELSE canvasLandmarks
  /\ frameLog' = IF Head(landmarkJobs).landmarks
                 THEN Append(frameLog, "drawFaceLandmarks")
                 ELSE frameLog
  /\ previousLandmarkDrawn' = TRUE
  /\ UNCHANGED <<modelLoaded, camera, elems, video, size, canvasSize, styles,
                 frameRequested, detections, mood, previousDetectionFinished,
                 inflight, hist, storedStale>>

\* ---- the page around the composable ----
\* the video element is handed to the component, which may pause or resume
\* it; the stream may end
VideoPause ==
  /\ AwaitResumesBeforeNextTask
  /\ camera = "granted" /\ videoElement /\ ~paused
  /\ paused' = TRUE
  /\ UNCHANGED <<modelLoaded, camera, elems, ended, size, canvasSize, canvasLandmarks, styles, frameRequested,
                 detections, mood, gates, inflight, landmarkJobs, hist, storedStale, frameLog>>

VideoPlay ==
  /\ AwaitResumesBeforeNextTask
  /\ camera = "granted" /\ videoElement /\ paused /\ ~ended
  /\ paused' = FALSE
  /\ UNCHANGED <<modelLoaded, camera, elems, ended, size, canvasSize, canvasLandmarks, styles, frameRequested,
                 detections, mood, gates, inflight, landmarkJobs, hist, storedStale, frameLog>>

VideoEnded ==
  /\ AwaitResumesBeforeNextTask
  /\ camera = "granted" /\ videoElement /\ ~ended
  /\ ended' = TRUE
  /\ UNCHANGED <<modelLoaded, camera, elems, paused, size, canvasSize, canvasLandmarks, styles,
                 frameRequested, detections, mood, gates, inflight, landmarkJobs, hist,
                 storedStale, frameLog>>

\* the template may unmount and remount the canvas (v-if), which unbinds and
\* rebinds the template ref
CanvasUnmount ==
  /\ AwaitResumesBeforeNextTask
  /\ canvasElement
  /\ canvasElement' = FALSE
  /\ UNCHANGED <<modelLoaded, camera, videoElement, filterElement, video, size, canvasSize, canvasLandmarks,
                 styles, frameRequested, detections, mood, gates, inflight, landmarkJobs,
                 hist, storedStale, frameLog>>

CanvasMount ==
  /\ AwaitResumesBeforeNextTask
  /\ ~canvasElement
  /\ canvasElement' = TRUE
  /\ UNCHANGED <<modelLoaded, camera, videoElement, filterElement, video, size, canvasSize, canvasLandmarks,
                 styles, frameRequested, detections, mood, gates, inflight, landmarkJobs,
                 hist, storedStale, frameLog>>

Next ==
  \/ LoadModel
  \/ HandleStream
  \/ HandleStreamSkip
  \/ GetUserMediaReject
  \/ FrameCallbackSkip
  \/ FrameCallbackStep
  \/ DetectFacesStep
  \/ AddLandmarksResume
  \/ VideoPause
  \/ VideoPlay
  \/ VideoEnded
  \/ CanvasUnmount
  \/ CanvasMount

Spec == Init /\ [][Next]_vars

FairSpec == Spec /\ WF_vars(AddLandmarksResume)

\* frames keep being presented and every inference call completes; the
\* template binds the video and the filter element
LiveInit == Init /\ videoElement /\ filterElement

LiveSpec ==
  /\ LiveInit
  /\ [][Next]_vars
  /\ WF_vars(AddLandmarksResume)
  /\ WF_vars(FrameCallbackStep)
  /\ WF_vars(DetectFacesStep)

TypeOK ==
  /\ modelLoaded \in BOOLEAN
  /\ detections \in DetectionResults
  /\ Len(inflight) <= MaxInFlight
  /\ Len(landmarkJobs) <= MaxJobs

Min(a, b) == IF a < b THEN a ELSE b

Max(a, b) == IF a > b THEN a ELSE b

KnownLabels == {"happy", "neutral", "sad", "angry"}

\* ---- C1 ----
\* C1: in every reachable state mood is an integer within [MIN, MAX] = [0, 180].
MoodInRange == mood \in MIN..MAX

\* ---- C2 ----
\* C2: a frame callback whose updateMood sees a stored detection with top
\* expression "happy" leaves mood = min(mood + 10, 180).
HappyStepClamped ==
  [][(FrameCallbackStep /\ TopExpression(detections) = "happy")
       => mood' = Min(mood + STEP, MAX)]_vars

\* ---- C3 ----
\* C3: a frame callback whose updateMood sees a stored detection with top
\* expression "neutral" leaves mood = max(mood - 5, 0); at 0 it stays 0.
NeutralStepClamped ==
  [][(FrameCallbackStep /\ TopExpression(detections) = "neutral")
       => mood' = Max(mood - HALFSTEP, MIN)]_vars

NeutralAtMinWitness == lastExpr = "neutral" /\ mood = MIN

\* ---- C4 ----
\* C4: a frame callback whose updateMood sees a stored detection with top
\* expression "sad" or "angry" leaves mood exactly 0, whatever it was before.
SadAngryResets ==
  [][(FrameCallbackStep /\ TopExpression(detections) \in {"sad", "angry"})
       => mood' = MIN]_vars

AngryResetWitness == lastExpr = "angry" /\ mood = MIN /\ canvasHue = MIN

\* ---- C5 ----
\* C5: at most one face-detection call is outstanding at any time.
AtMostOneDetectionInFlight == Len(inflight) <= 1

\* ---- C6 ----
\* C6: at most one addLandmarks invocation is suspended or drawing at any time.
AtMostOneLandmarkRender == Len(landmarkJobs) <= 1

LandmarkRenderWitness ==
  /\ Len(landmarkJobs) = 1
  /\ Head(landmarkJobs).landmarks
  /\ frameRequested

\* ---- C7 ----
\* C7: every addLandmarks invocation that passed its guards eventually
\* finishes and leaves previousLandmarkDrawn = true, with or without landmarks.
LandmarkRenderFinishes ==
  (landmarkJobs /= <<>>) ~> (landmarkJobs = <<>> /\ previousLandmarkDrawn)

NoLandmarksRenderWitness ==
  /\ Len(landmarkJobs) = 1
  /\ ~Head(landmarkJobs).landmarks
  /\ previousLandmarkDrawn

\* ---- C8 ----
\* C8: when the top expression is none of happy, neutral, sad, angry, the frame
\* callback leaves mood unchanged, logs the label and registers the next frame.
UnknownLabelNoOp ==
  [][(FrameCallbackStep /\ TopExpression(detections) \notin (KnownLabels \cup {"undefined"}))
       => (mood' = mood /\ frameRequested' /\ TopExpression(detections) \in consoleLog')]_vars

UnknownLabelWitness ==
  /\ lastExpr = "surprised"
  /\ "surprised" \in consoleLog
  /\ mood = MIN
  /\ frameRequested

\* ---- C9 ----
\* C9: when detections is undefined, the frame callback's updateMood leaves
\* mood unchanged.
NoDetectionNoChange ==
  [][(FrameCallbackStep /\ ~detections.defined) => mood' = mood]_vars

NoDetectionWitness == lastExpr = "undefined" /\ ~detections.defined /\ mood = MIN

\* ---- C10 ----
\* C10: from the initial mood 180, updateMood calls with top expressions happy,
\* sad, neutral, surprised leave mood at 180, 0, 0, 0 in turn.
ScenarioMoods ==
  /\ scenario = 0 => mood = MAX
  /\ scenario = 1 => mood = MAX
  /\ scenario = 2 => mood = MIN
  /\ scenario = 3 => mood = MIN
  /\ scenario = 4 => mood = MIN

ScenarioWitness == scenario = Len(Script) /\ lastExpr = "surprised" /\ mood = MIN

\* ---- C11 ----
\* C11: after every frame callback that runs, the canvas width and height equal
\* the width and height of that callback's metadata; a callback that finds the
\* canvas missing changes no size.
CanvasFollowsFrame ==
  [][/\ \A md \in FrameSizes : FrameCallbackRun(md) => (canvasSize' = md /\ size' = md)
     /\ FrameCallbackSkip => (canvasSize' = canvasSize /\ size' = size)]_vars

CanvasResizedWitness ==
  /\ canvasSize = <<1280, 720>>
  /\ size = <<1280, 720>>
  /\ frameLog /= <<>>

\* ---- C12 ----
\* C12: no detection call starts while the models are not loaded, the video
\* element is absent, or the video is paused or ended; a frame callback in such
\* a state leaves detections and both flags unchanged.
NoDetectionUnlessReady ==
  [][/\ Len(inflight') > Len(inflight)
          => (modelLoaded /\ videoElement /\ ~paused /\ ~ended)
     /\ (FrameCallbackStep /\ (~modelLoaded \/ ~videoElement \/ paused \/ ended))
          => (inflight' = inflight /\ detections' = detections /\ UNCHANGED gates)]_vars

FrameWhileNotReadyWitness ==
  /\ ~modelLoaded
  /\ frameLog /= <<>>
  /\ paused
  /\ inflight = <<>>
  /\ detections = Undefined

\* ---- C13 ----
\* C13: a frame callback that finds an element reference missing still leaves
\* a frame callback registered, so the work is retried on the next frame.
SkipKeepsLoopRunning == [][FrameCallbackSkip => frameRequested']_vars

\* ---- C14 ----
\* C14: once camera access is rejected it stays rejected, no frame callback is
\* registered or has run, no detection was started, and mood and detections
\* keep their initial values.
RejectedCameraNeverStarts ==
  [][(camera = "rejected" \/ camera' = "rejected")
       => /\ camera' = "rejected"
          /\ ~frameRequested'
          /\ frameLog' = <<>>
          /\ inflight' = <<>>
          /\ mood' = 180
          /\ detections' = Undefined]_vars

RejectedCameraWitness ==
  /\ camera = "rejected"
  /\ modelLoaded
  /\ videoElement /\ canvasElement

\* ---- C15 ----
\* C15 as claimed: at the end of every frame callback that runs, the hue equals
\* mood and, when the filter element is present, the overlay alpha is mood/180.
StyleFollowsMoodEveryFrame ==
  [][FrameCallbackStep
       => (canvasHue' = mood' /\ (filterElement => filterOpacity' = mood'))]_vars

\* C15 amended: at the end of every frame callback that runs, the hue equals
\* mood; when the filter element is present and a detection result is stored,
\* the overlay alpha is mood/180; mood changes only inside a frame callback.
StyleFollowsMood ==
  [][/\ FrameCallbackStep
          => /\ canvasHue' = mood'
             /\ (filterElement /\ detections.defined) => filterOpacity' = mood'
     /\ mood' /= mood => FrameCallbackStep]_vars

StyleFollowsMoodWitness ==
  /\ filterElement
  /\ lastExpr = "happy"
  /\ mood = 10
  /\ canvasHue = 10
  /\ filterOpacity = 10

\* ---- C16 ----
Position(log, step) == CHOOSE k \in 1..Len(log) : log[k] = step

Drawn == \E k \in 1..Len(frameLog) : frameLog[k] = "drawFaceLandmarks"

\* C16 as claimed: the landmark drawing of a frame comes after that frame's
\* resize and before its style assignment and its registration of the next
\* frame callback.
DrawBeforeStyle ==
  Drawn =>
    /\ Position(frameLog, "resizeCanvas") < Position(frameLog, "drawFaceLandmarks")
    /\ Position(frameLog, "drawFaceLandmarks") < Position(frameLog, "style")
    /\ Position(frameLog, "drawFaceLandmarks")
         < Position(frameLog, "requestVideoFrameCallback")

\* C16 amended: within a frame the order is resize, detection start,
\* addLandmarks call, mood update, style assignment, registration of the next
\* frame callback; the landmark drawing of a frame comes after all of these
\* and before the next frame callback runs.
DrawAfterFrameBody ==
  /\ landmarkJobs /= <<>> => (frameLog = FrameCallbackOrder /\ frameRequested)
  /\ Drawn => frameLog = Append(FrameCallbackOrder, "drawFaceLandmarks")
  /\ Position(FrameCallbackOrder, "resizeCanvas") < Position(FrameCallbackOrder, "detectFaces")
  /\ Position(FrameCallbackOrder, "detectFaces") < Position(FrameCallbackOrder, "addLandmarks")
  /\ Position(FrameCallbackOrder, "addLandmarks") < Position(FrameCallbackOrder, "style")
  /\ Position(FrameCallbackOrder, "updateMood") < Position(FrameCallbackOrder, "style")
  /\ Position(FrameCallbackOrder, "style")
       < Position(FrameCallbackOrder, "requestVideoFrameCallback")

DrawnWitness == Drawn /\ canvasLandmarks /\ landmarkJobs = <<>> /\ frameRequested

\* ---- C17 ----
\* C17: mood changes only in a frame callback; a frame callback moves mood by
\* exactly one step of the transition keyed by the stored top expression (one
\* +10 for happy below 180, one -5 for neutral above 0); a detection completing
\* does not change mood.
OneTransitionPerFrame ==
  [][/\ mood' /= mood => FrameCallbackStep
     /\ DetectFacesStep => mood' = mood
     /\ (FrameCallbackStep /\ TopExpression(detections) = "happy" /\ mood < MAX)
          => mood' = mood + STEP
     /\ (FrameCallbackStep /\ TopExpression(detections) = "neutral" /\ mood > MIN)
          => mood' = mood - HALFSTEP]_vars

RepeatedTransitionWitness ==
  /\ lastExpr = "happy"
  /\ TopExpression(detections) = "happy"
  /\ mood = 20
  /\ inflight = <<>>

\* ---- C18 ----
\* C18: a stored detection result is never overwritten by the result of a
\* detection that was started earlier.
StoresInStartOrder == ~storedStale

\* ---- C19 ----
Playing ==
  /\ modelLoaded
  /\ camera = "granted"
  /\ videoElement /\ canvasElement
  /\ ~paused /\ ~ended

\* C19: if from some point on the models are loaded, the video keeps playing
\* and a frame callback stays registered, then (frames being presented and
\* inference calls completing) frame callbacks start new detections again and
\* again: the gate never stays closed.
DetectionKeepsRestarting ==
  <>[](Playing /\ frameRequested)
    => []<><<FrameCallbackStep /\ Len(inflight') > Len(inflight)>>_vars

RestartedWitness ==
  /\ Playing
  /\ detections.defined
  /\ Len(inflight) = 1
  /\ ~inflight[1].stale
  /\ frameRequested

====
